---- MODULE Spec2Model ----
(***************************************************************************)
(* A model of the ray tracer's Scene class (src/src/Scene.cpp):            *)
(*   - BuildSceneFromFile, the line-by-line scene loader;                  *)
(*   - ComputeRayColor, the recursive shading routine, as a machine with   *)
(*     an explicit call stack;                                             *)
(*   - IsPointInShadow, the shadow query.                                  *)
(* Reals are fixed-point integers in units of 1/One.  Geometry is          *)
(* abstract: what a ray meets is the distance t at which it meets each     *)
(* object (or NoT), drawn when the object's Hit is called.                 *)
(***************************************************************************)
EXTENDS Integers, Sequences, FiniteSets, TLC

VARIABLES
    allObjects,   \* Scene::allObjects, vector of shared_ptr<SceneObject>
    allLights,    \* Scene::allLights, vector of shared_ptr<Light>
    bpc,          \* where BuildSceneFromFile is
    file,         \* the lines getline has returned so far
    logged,       \* numbers of the lines written out by the error branch
    camera,       \* what the Camera line last set
    stack,        \* the ComputeRayColor activation records, outermost first
    result,       \* value returned by the outermost ComputeRayColor call
    query         \* the last IsPointInShadow call and what it returned

vars == <<allObjects, allLights, bpc, file, logged, camera, stack, result, query>>

-----------------------------------------------------------------------------
(* Bounds of the model *)

MaxLines == 3        \* lines read by one run of BuildSceneFromFile
MaxObjects == 2      \* scene lines behind a scene that is ray traced
MaxT == 2            \* largest intersection distance drawn

(* Numbers of the program *)

One == 4                     \* fixed-point 1.0
maxRecursionDepth == 1       \* Scene::maxRecursionDepth
epsilon == 1                 \* Scene::epsilon, in units of t
reflectiveThreshold == 0     \* Scene::reflectiveThreshold, below 1/One
backgroundColor == <<0, 0, 0>>

NoT == -1                    \* the object has no intersection with the ray
Infinity == MaxT + 1         \* HitResult's default t, above every distance
TVals == {NoT} \cup (0..MaxT)
None == <<>>

-----------------------------------------------------------------------------
(* Vectors and fixed-point arithmetic *)

Zero3 == <<0, 0, 0>>
Mul(a, b) == (a * b) \div One
Add3(a, b) == <<a[1] + b[1], a[2] + b[2], a[3] + b[3]>>
Mul3(a, b) == <<Mul(a[1], b[1]), Mul(a[2], b[2]), Mul(a[3], b[3])>>
Scale3(s, a) == <<Mul(s, a[1]), Mul(s, a[2]), Mul(s, a[3])>>
\* glm::length(v) > 0
LengthPositive(v) == v[1] * v[1] + v[2] * v[2] + v[3] * v[3] > 0

-----------------------------------------------------------------------------
(* Materials a scene file can give an object *)

Material ==
    [ Diffuse |-> [kd |-> <<One, 0, 0>>, ks |-> <<One, One, One>>,
                   ke |-> Zero3, reflective |-> 0],
      Mirror  |-> [kd |-> <<0, One, 0>>, ks |-> <<One, One, One>>,
                   ke |-> Zero3, reflective |-> One],
      Lamp    |-> [kd |-> <<One, One, One>>, ks |-> Zero3,
                   ke |-> <<2 * One, One \div 2, 0 - One>>,
                   reflective |-> One \div 2] ]
MatNames == DOMAIN Material

GetMaterial(obj) == Material[obj.mat]

-----------------------------------------------------------------------------
(* BuildSceneFromFile *)

Subclasses == {"Sphere", "Plane", "Square", "TriangleMesh"}

\* The lines of a scene file, by what the loader reads of them: the first
\* token, and for a SceneObject line the subclass token and the material.
\* "PointLight" is a directive the loader no longer knows, "Cube" a subclass
\* it never knew.
Lines ==
    [directive : {"SceneObject"}, subclass : Subclasses \cup {"Cube"}, mat : MatNames]
    \cup [directive : {"Camera", "#", "PointLight"}, subclass : {""}, mat : {"Diffuse"}]

\* ReadObject<T>(ss), and LoadMeshFile on a TriangleMesh
ReadObject(line) ==
    [subclass |-> line.subclass, mat |-> line.mat,
     mesh |-> (line.subclass = "TriangleMesh")]

\* The subclass chain: push_back for the four known subclasses, nothing else
PushObject(objs, line) ==
    IF line.subclass \in Subclasses THEN Append(objs, ReadObject(line)) ELSE objs

\* "If the sceneobject has a nonzero emissive component, create a light for
\* it", on topObj = allObjects.back(); objects are named by their index.
AddEmissiveLight_Mut(objs, lights) ==
    IF LengthPositive(GetMaterial(objs[Len(objs)]).kd)
    THEN Append(lights, [obj |-> Len(objs)])
    ELSE lights

AddEmissiveLight(objs, lights) ==
    IF LengthPositive(GetMaterial(objs[Len(objs)]).ke)
    THEN Append(lights, [obj |-> Len(objs)])
    ELSE lights

\* One iteration of the getline loop on line number n: the states it can
\* leave.  allObjects.back() on an empty vector is undefined: the run may
\* crash, or read a garbage pointer whose material may or may not look
\* emissive (object 0 names that garbage object).
BuildLine(s, n, line) ==
    IF line.directive = "Camera" THEN {[s EXCEPT !.camera = "set"]}
    ELSE IF line.directive = "SceneObject" THEN
        LET objs == PushObject(s.objs, line) IN
        IF objs = <<>>
        THEN { [s EXCEPT !.crashed = TRUE],
               s,
               [s EXCEPT !.lights = Append(s.lights, [obj |-> 0])] }
        ELSE { [s EXCEPT !.objs = objs, !.lights = AddEmissiveLight(objs, s.lights)] }
    ELSE IF line.directive = "#" THEN {s}
    ELSE {[s EXCEPT !.logged = Append(s.logged, n)]}

EmptyScene ==
    [objs |-> <<>>, lights |-> <<>>, logged |-> <<>>, camera |-> "default",
     crashed |-> FALSE]

BuildState ==
    [objs |-> allObjects, lights |-> allLights, logged |-> logged,
     camera |-> camera, crashed |-> (bpc = "crashed")]

InitBuild ==
    /\ allObjects = <<>>
    /\ allLights = <<>>
    /\ bpc = "open"
    /\ file = <<>>
    /\ logged = <<>>
    /\ camera = "default"
    /\ stack = <<>>
    /\ result = None
    /\ query = None

\* ifstream file(filename) is good
OpenFile ==
    /\ bpc = "open"
    /\ bpc' = "reading"
    /\ UNCHANGED <<allObjects, allLights, file, logged, camera, stack, result, query>>

\* !file.good(): the error is written and the function returns
FileMissing ==
    /\ bpc = "open"
    /\ bpc' = "missing"
    /\ UNCHANGED <<allObjects, allLights, file, logged, camera, stack, result, query>>

\* file.getline succeeds and the loop body runs on the line
ReadLine ==
    /\ bpc = "reading"
    /\ Len(file) < MaxLines
    /\ \E line \in Lines :
         \E s \in BuildLine(BuildState, Len(file) + 1, line) :
            /\ file' = Append(file, line)
            /\ allObjects' = s.objs
            /\ allLights' = s.lights
            /\ logged' = s.logged
            /\ camera' = s.camera
            /\ bpc' = IF s.crashed THEN "crashed" ELSE "reading"
    /\ UNCHANGED <<stack, result, query>>

\* file.getline fails (end of file, or a line of 1024 characters or more)
EndOfFile ==
    /\ bpc = "reading"
    /\ bpc' = "done"
    /\ UNCHANGED <<allObjects, allLights, file, logged, camera, stack, result, query>>

NextBuild == OpenFile \/ FileMissing \/ ReadLine \/ EndOfFile

SpecBuild == InitBuild /\ [][NextBuild]_vars

-----------------------------------------------------------------------------
(* EmissiveLight *)

GetObject(light) == light.obj
GetColor(objs, light) == GetMaterial(objs[light.obj]).ke

-----------------------------------------------------------------------------
(* SceneObject::Hit and the shadow query *)

\* Hit(ray, hit, tMin, tMax) for an object the ray meets at t: true, with
\* hit.t set to t, only when t lies in [tMin, tMax] and is strictly below
\* the t the HitResult holds; false, and the HitResult untouched, otherwise.
Hit(t, hitT, tMin, tMax) == t # NoT /\ t >= tMin /\ t <= tMax /\ t < hitT

\* The loop of IsPointInShadow over the n objects of allObjects, from object
\* i on; shadowT is shadowHit.t
RECURSIVE ShadowScan(_, _, _, _, _, _)
ShadowScan(n, i, ts, dist, lightObj, shadowT) ==
    IF i > n THEN FALSE
    ELSE IF i # lightObj /\ Hit(ts[i], shadowT, epsilon, dist) THEN TRUE
    ELSE ShadowScan(n, i + 1, ts, dist, lightObj, shadowT)

RECURSIVE ShadowScan_Mut(_, _, _, _, _, _)
ShadowScan_Mut(n, i, ts, dist, lightObj, shadowT) ==
    IF i > n THEN FALSE
    ELSE IF Hit(ts[i], shadowT, epsilon, dist) THEN TRUE
    ELSE ShadowScan_Mut(n, i + 1, ts, dist, lightObj, shadowT)

\* IsPointInShadow(hitLoc, lightLoc, lightObj) in a scene of n objects: ts[i]
\* is where the shadow ray meets object i, dist is
\* glm::length(lightLoc - hitLoc)
IsPointInShadow_Mut(n, ts, dist, lightObj) ==
    ShadowScan_Mut(n, 1, ts, dist, lightObj, Infinity)

IsPointInShadow(n, ts, dist, lightObj) ==
    ShadowScan(n, 1, ts, dist, lightObj, Infinity)

\* What IsPointInShadow can answer in a scene of n objects for a light of
\* object lightObj, over the places the shadow ray can meet the objects and
\* the distances to the light
ShadowTable ==
    [n \in 0..MaxObjects |->
        [lightObj \in 0..n |->
            {IsPointInShadow(n, ts, dist, lightObj) :
                ts \in [1..n -> TVals], dist \in 0..MaxT}]]

\* The objects the current IsPointInShadow scans: all but lightObj
Scanned(n, lightObj) == {k \in 1..n : k # lightObj}

\* The loop of the earlier IsPointInShadow (A6) over the objects of the set
\* objs, from object i on: Hit with tMin = epsilon and the default tMax
RECURSIVE ShadowScanA6(_, _, _, _, _)
ShadowScanA6(n, i, ts, objs, shadowT) ==
    IF i > n THEN FALSE
    ELSE IF i \in objs /\ Hit(ts[i], shadowT, epsilon, Infinity) THEN TRUE
    ELSE ShadowScanA6(n, i + 1, ts, objs, shadowT)

\* The earlier IsPointInShadow(hitLoc, light) on a scene made of the objects
\* objs: shadowHit.t starts at dist, glm::length(light.pos - hitLoc)
IsPointInShadowA6_Mut(n, ts, objs, dist) ==
    ShadowScanA6(n, 1, ts, objs, Infinity)

IsPointInShadowA6(n, ts, objs, dist) ==
    ShadowScanA6(n, 1, ts, objs, dist)

-----------------------------------------------------------------------------
(* Material::ShadeBlinnPhong, ClampVector *)

\* nl is max(0, dot(lightVec, nor)), nh is pow(max(0, dot(halfVec, nor)),
\* specularExp), both in [0, 1]
ShadeBlinnPhong(mat, nl, nh, intensity) ==
    Scale3(intensity, Add3(Scale3(nl, mat.kd), Scale3(nh, mat.ks)))

ClampDouble_Mut(num, min, max) == IF num < min THEN min ELSE num

ClampDouble(num, min, max) ==
    LET low == IF num < min THEN min ELSE num
    IN  IF low > max THEN max ELSE low

ClampVector(vec, min, max) ==
    <<ClampDouble(vec[1], min, max), ClampDouble(vec[2], min, max),
      ClampDouble(vec[3], min, max)>>

-----------------------------------------------------------------------------
(* ComputeRayColor *)

\* An activation of ComputeRayColor(ray, depth, specularRay).  t and
\* hitObject are the HitResult (object 0 is nullptr); i is the loop index.
\* History fields: ts, the distances the scan drew; path, the return path
\* taken; reflColor and giColor, what the two recursive calls returned;
\* nHit, nShadow, nShade and nCalls, the calls of Hit, IsPointInShadow,
\* ShadeBlinnPhong and ComputeRayColor this activation has made.
NewFrame(depth, specularRay) ==
    [depth |-> depth, specularRay |-> specularRay, pc |-> "entry", i |-> 0,
     t |-> Infinity, hitObject |-> 0, color |-> Zero3,
     ts |-> <<>>, path |-> "", reflColor |-> None, giColor |-> None,
     nHit |-> 0, nShadow |-> 0, nShade |-> 0, nCalls |-> 0]

\* the default of the specularRay parameter
DefaultSpecularRay == FALSE

PastRecursionDepth_Mut(depth) == depth > maxRecursionDepth + 1

PastRecursionDepth(depth) == depth > maxRecursionDepth

\* One iteration of "find the nearest object"
NearestHitStep_Mut(f, obj, t) ==
    IF Hit(t, f.t, epsilon, Infinity)
    THEN [f EXCEPT !.t = t, !.hitObject = obj]
    ELSE [f EXCEPT !.hitObject = obj]

NearestHitStep(f, obj, t) ==
    IF Hit(t, f.t, epsilon, Infinity)
    THEN [f EXCEPT !.t = t, !.hitObject = obj]
    ELSE f

AddsEmissive_Mut(depth, specularRay) == depth = 0

AddsEmissive(depth, specularRay) == depth = 0 \/ specularRay

SendsReflectionRay(mat) == mat.reflective > 0 + reflectiveThreshold

ShadesBlinnPhong_Mut(mat) == mat.reflective <= One - reflectiveThreshold

ShadesBlinnPhong(mat) == mat.reflective < One - reflectiveThreshold

ChildDepth_Mut(depth) == depth

ChildDepth(depth) == depth + 1

\* color += mat.ks * mat.reflective * ComputeRayColor(reflectionRay, ...)
AfterReflection(f, mat, c) ==
    [f EXCEPT !.color = Add3(f.color, Mul3(Scale3(mat.reflective, mat.ks), c)),
              !.reflColor = c, !.pc = "direct", !.i = 1]

\* ambientGI *= kd / pi; ambientGI *= pi; color += ambientGI; ClampVector
AfterGlobalIllumination(f, mat, c) ==
    [f EXCEPT !.color = ClampVector(Add3(f.color, Mul3(c, mat.kd)), 0, One),
              !.giColor = c, !.pc = "ret"]

Top == stack[Len(stack)]
Callers == SubSeq(stack, 1, Len(stack) - 1)
SetTop(f) == [stack EXCEPT ![Len(stack)] = f]
TopMat == GetMaterial(allObjects[Top.hitObject])

\* Scenes a ray is traced in: what BuildSceneFromFile leaves after up to
\* MaxObjects SceneObject lines, its undefined runs left out.  The shape of
\* an object does not show in the abstract geometry, so one known and one
\* unknown subclass stand for all.
SceneLines == [directive : {"SceneObject"}, subclass : {"Sphere", "Cube"}, mat : MatNames]

RECURSIVE ScenesAfter(_)
ScenesAfter(k) ==
    IF k = 0 THEN {EmptyScene}
    ELSE LET before == ScenesAfter(k - 1)
         IN  before \cup UNION {BuildLine(s, k, l) : s \in before, l \in SceneLines}

RenderScenes ==
    {s \in ScenesAfter(MaxObjects) :
        ~s.crashed /\ \A j \in 1..Len(s.lights) : s.lights[j].obj # 0}

InitRender ==
    /\ \E s \in RenderScenes : allObjects = s.objs /\ allLights = s.lights
    /\ bpc = "done"
    /\ file = <<>>
    /\ logged = <<>>
    /\ camera = "set"
    /\ stack = <<>>
    /\ result = None
    /\ query = None

scene == <<allObjects, allLights, bpc, file, logged, camera>>

\* A caller invokes ComputeRayColor(ray, depth, specularRay)
CallComputeRayColor ==
    /\ stack = <<>>
    /\ result = None
    /\ \E depth \in 0..(maxRecursionDepth + 2), specularRay \in BOOLEAN :
          stack' = <<NewFrame(depth, specularRay)>>
    /\ UNCHANGED <<scene, result, query>>

\* if (depth > maxRecursionDepth) return backgroundColor;
DepthGuard ==
    /\ stack # <<>>
    /\ Top.pc = "entry"
    /\ PastRecursionDepth(Top.depth)
    /\ stack' = SetTop([Top EXCEPT !.pc = "ret", !.color = backgroundColor,
                                   !.path = "guard"])
    /\ UNCHANGED <<scene, result, query>>

\* HitResult hit; and the loop over allObjects begins
BeginScan ==
    /\ stack # <<>>
    /\ Top.pc = "entry"
    /\ ~PastRecursionDepth(Top.depth)
    /\ stack' = SetTop([Top EXCEPT !.pc = "scan", !.i = 1])
    /\ UNCHANGED <<scene, result, query>>

\* object->Hit(ray, hit, epsilon) on the next object
ScanObject ==
    /\ stack # <<>>
    /\ Top.pc = "scan"
    /\ Top.i <= Len(allObjects)
    /\ \E t \in TVals :
          stack' = SetTop([NearestHitStep(Top, Top.i, t) EXCEPT
                              !.i = Top.i + 1, !.ts = Append(Top.ts, t),
                              !.nHit = Top.nHit + 1])
    /\ UNCHANGED <<scene, result, query>>

\* hit.hitObject == nullptr: else return backgroundColor;
Miss ==
    /\ stack # <<>>
    /\ Top.pc = "scan"
    /\ Top.i > Len(allObjects)
    /\ Top.hitObject = 0
    /\ stack' = SetTop([Top EXCEPT !.pc = "ret", !.color = backgroundColor,
                                   !.path = "miss", !.ts = <<>>])
    /\ UNCHANGED <<scene, result, query>>

\* hit.hitObject != nullptr: hit.loc and hit.nor are computed (hit.t is not
\* read again), color starts at zero and takes the emissive term
EmissiveColor ==
    /\ stack # <<>>
    /\ Top.pc = "scan"
    /\ Top.i > Len(allObjects)
    /\ Top.hitObject # 0
    /\ stack' = SetTop([Top EXCEPT
            !.pc = "reflect", !.path = "hit", !.ts = <<>>, !.t = Infinity,
            !.color = IF AddsEmissive(Top.depth, Top.specularRay)
                      THEN Add3(Zero3, TopMat.ke) ELSE Zero3])
    /\ UNCHANGED <<scene, result, query>>

\* the reflection ray is sent: ComputeRayColor(reflectionRay, depth + 1, true)
ReflectionRay ==
    /\ stack # <<>>
    /\ Top.pc = "reflect"
    /\ SendsReflectionRay(TopMat)
    /\ stack' = Append(SetTop([Top EXCEPT !.pc = "waitRefl", !.nCalls = Top.nCalls + 1]),
                       NewFrame(ChildDepth(Top.depth), TRUE))
    /\ UNCHANGED <<scene, result, query>>

NoReflection ==
    /\ stack # <<>>
    /\ Top.pc = "reflect"
    /\ ~SendsReflectionRay(TopMat)
    /\ stack' = SetTop([Top EXCEPT !.pc = "direct", !.i = 1])
    /\ UNCHANGED <<scene, result, query>>

Intensities == {One}
Cosines == {0, One}

ShadowAnswers(lightObj) == ShadowTable[Len(allObjects)][lightObj]

\* What (1.0 - mat.reflective) * mat.ShadeBlinnPhong(ray, hit, light) can be
DirectTerms(mat) ==
    {Scale3(One - mat.reflective, ShadeBlinnPhong(mat, nl, nh, intensity)) :
        nl \in Cosines, nh \in Cosines, intensity \in Intensities}

\* one iteration of the loop over allLights
DirectLight ==
    /\ stack # <<>>
    /\ Top.pc = "direct"
    /\ ShadesBlinnPhong(TopMat)
    /\ Top.i <= Len(allLights)
    /\ \E shadow \in ShadowAnswers(GetObject(allLights[Top.i])),
          shade \in DirectTerms(TopMat) :
          stack' = SetTop([Top EXCEPT
                  !.i = Top.i + 1,
                  !.nShadow = Top.nShadow + 1,
                  !.nShade = IF shadow THEN Top.nShade ELSE Top.nShade + 1,
                  !.color = IF shadow THEN Top.color ELSE Add3(Top.color, shade)])
    /\ UNCHANGED <<scene, result, query>>

\* the Blinn-Phong block is over, or was skipped for a mirror
DirectDone ==
    /\ stack # <<>>
    /\ Top.pc = "direct"
    /\ ~ShadesBlinnPhong(TopMat) \/ Top.i > Len(allLights)
    /\ stack' = SetTop([Top EXCEPT !.pc = "gi"])
    /\ UNCHANGED <<scene, result, query>>

\* ComputeRayColor(ambientRay, depth + 1)
GlobalIllumination ==
    /\ stack # <<>>
    /\ Top.pc = "gi"
    /\ stack' = Append(SetTop([Top EXCEPT !.pc = "waitGI", !.nCalls = Top.nCalls + 1]),
                       NewFrame(ChildDepth(Top.depth), DefaultSpecularRay))
    /\ UNCHANGED <<scene, result, query>>

\* return: the value goes to the caller, which carries on from its call
Return ==
    /\ stack # <<>>
    /\ Top.pc = "ret"
    /\ IF Len(stack) = 1
       THEN /\ result' = Top.color
            /\ stack' = <<>>
       ELSE LET caller == stack[Len(stack) - 1]
                mat == GetMaterial(allObjects[caller.hitObject])
                next == IF caller.pc = "waitRefl"
                        THEN AfterReflection(caller, mat, Top.color)
                        ELSE AfterGlobalIllumination(caller, mat, Top.color)
            IN  /\ stack' = [Callers EXCEPT ![Len(stack) - 1] = next]
                /\ UNCHANGED result
    /\ UNCHANGED <<scene, query>>

Next ==
    \/ CallComputeRayColor
    \/ DepthGuard \/ BeginScan \/ ScanObject \/ Miss \/ EmissiveColor
    \/ ReflectionRay \/ NoReflection \/ DirectLight \/ DirectDone
    \/ GlobalIllumination \/ Return

Spec == InitRender /\ [][Next]_vars

\* The program runs one step after another and never waits
SpecLive == Spec /\ WF_vars(Next)

-----------------------------------------------------------------------------
(* IsPointInShadow, called on its own *)

\* One shadow query, answered by the current IsPointInShadow and by the
\* earlier one on the objects the current one scans.  lightObj 0 is the
\* nullptr a light without an object returns
ShadowQuery ==
    /\ query = None
    /\ \E ts \in [1..Len(allObjects) -> TVals], dist \in 0..MaxT,
          lightObj \in 0..Len(allObjects) :
          query' = [ts |-> ts, dist |-> dist, lightObj |-> lightObj,
                    inShadow |-> IsPointInShadow(Len(allObjects), ts, dist, lightObj),
                    inShadowA6 |->
                        IsPointInShadowA6(Len(allObjects), ts,
                            Scanned(Len(allObjects), lightObj), dist)]
    /\ UNCHANGED <<scene, stack, result>>

NextShadow == ShadowQuery

SpecShadow == InitRender /\ [][NextShadow]_vars

-----------------------------------------------------------------------------
(* Properties of BuildSceneFromFile *)

InSeq(x, seq) == \E k \in 1..Len(seq) : seq[k] = x
LightsOf(o) == {j \in 1..Len(allLights) : GetObject(allLights[j]) = o}
Emissive(o) == LengthPositive(GetMaterial(allObjects[o]).ke)

\* C7: after any sequence of scene-file lines, every object of allObjects
\* whose ke has magnitude above zero has an EmissiveLight in allLights whose
\* GetObject() is that object and whose GetColor() is that object's ke, and
\* an object whose ke is zero has no light.
C7_EmissiveObjectsHaveLights ==
    \A o \in 1..Len(allObjects) :
        IF Emissive(o)
        THEN \E j \in LightsOf(o) :
                GetColor(allObjects, allLights[j]) = GetMaterial(allObjects[o]).ke
        ELSE LightsOf(o) = {}

C7_Witness ==
    /\ bpc = "done"
    /\ \E o, p \in 1..Len(allObjects) :
          /\ Emissive(o) /\ LightsOf(o) # {}
          /\ ~Emissive(p) /\ LightsOf(p) = {}

UnknownDirective(line) == line.directive \notin {"Camera", "SceneObject", "#"}
UnknownSubclass(line) ==
    line.directive = "SceneObject" /\ line.subclass \notin Subclasses
ValidObjectLine(line) ==
    line.directive = "SceneObject" /\ line.subclass \in Subclasses

\* C8: every line whose directive is not recognized, and likewise every
\* SceneObject line whose subclass is not recognized, is logged as an error
\* naming that line, and loading goes on: every valid object line read is
\* loaded.
C8_UnrecognizedLinesLogged ==
    /\ bpc # "crashed"
    /\ \A n \in 1..Len(file) :
          (UnknownDirective(file[n]) \/ UnknownSubclass(file[n])) => InSeq(n, logged)
    /\ Len(allObjects) = Cardinality({n \in 1..Len(file) : ValidObjectLine(file[n])})

\* A line that is skipped because it adds no object
SkippedLine(line) ==
    UnknownDirective(line) \/ line.directive = "#" \/ UnknownSubclass(line)

OneLightPerEmissiveObject ==
    /\ \A j \in 1..Len(allLights) : GetObject(allLights[j]) \in 1..Len(allObjects)
    /\ \A o \in 1..Len(allObjects) :
          Cardinality(LightsOf(o)) = IF Emissive(o) THEN 1 ELSE 0

\* C10: a line that is skipped because it adds no object (an unrecognized
\* directive, a comment, a SceneObject line of unrecognized subclass) leaves
\* allObjects and allLights unchanged, and so allLights always holds exactly
\* one light per object with ke of magnitude above zero, never two lights
\* that point at the same object.
C10_SkippedLinesLeaveSceneAlone ==
    [][ /\ (Len(file') = Len(file) + 1 /\ SkippedLine(file'[Len(file')]))
            => (allObjects' = allObjects /\ allLights' = allLights)
        /\ OneLightPerEmissiveObject' ]_vars

-----------------------------------------------------------------------------
(* Properties of ComputeRayColor and IsPointInShadow *)

Frames == {stack[k] : k \in 1..Len(stack)}
InUnit(c) == \A ch \in 1..3 : c[ch] >= 0 /\ c[ch] <= One
MatOfHit(f) == GetMaterial(allObjects[f.hitObject])

\* C1: a call with depth above maxRecursionDepth returns exactly
\* backgroundColor, whatever the specular flag and the scene, and scans no
\* object and no light on the way.
C1_DepthTermination ==
    \A f \in Frames :
        f.depth > maxRecursionDepth =>
            /\ f.pc \in {"entry", "ret"}
            /\ f.nHit = 0 /\ f.nShadow = 0 /\ f.nShade = 0 /\ f.nCalls = 0
            /\ f.pc = "ret" => f.color = backgroundColor

C1_Witness ==
    /\ allObjects # <<>> /\ allLights # <<>>
    /\ \E f \in Frames :
          f.depth = maxRecursionDepth + 1 /\ f.specularRay /\ f.pc = "ret"

\* C2: a call that hits an object adds the material's ke exactly when
\* depth = 0 or the specular flag is set; the reflection branch recurses with
\* (depth + 1, true) and the global-illumination branch with (depth + 1,
\* false), so a global-illumination bounce never adds the ke of what it
\* strikes and a reflection bounce always does.
C2_EmissiveGuard ==
    /\ \A f \in Frames :
          f.pc = "reflect" =>
              f.color = IF f.depth = 0 \/ f.specularRay THEN MatOfHit(f).ke ELSE Zero3
    /\ \A k \in 2..Len(stack) :
          /\ stack[k - 1].pc \in {"waitRefl", "waitGI"}
          /\ stack[k].depth = stack[k - 1].depth + 1
          /\ stack[k].specularRay = (stack[k - 1].pc = "waitRefl")

C2_Witness ==
    /\ Len(stack) = 2
    /\ stack[1].pc = "waitGI"
    /\ stack[2].pc = "reflect"
    /\ MatOfHit(stack[2]).ke # Zero3
    /\ stack[2].color = Zero3

ValidT(t) == t # NoT /\ t >= epsilon
IsNearest(f, k) ==
    /\ ValidT(f.ts[k])
    /\ \A j \in 1..Len(f.ts) : ValidT(f.ts[j]) => f.ts[k] <= f.ts[j]

\* C3: when the scan over allObjects ends, hit.hitObject is the object whose
\* t is the smallest valid t (at or above epsilon) among all objects, the
\* earliest in the list among equals, and hit.t is that t; with no valid t
\* hit.hitObject stays null, and the call returns backgroundColor.
C3_NearestHit ==
    \A f \in Frames :
        /\ (f.pc = "scan" /\ f.i > Len(allObjects)) =>
              IF \E k \in 1..Len(f.ts) : ValidT(f.ts[k])
              THEN /\ f.hitObject \in 1..Len(f.ts)
                   /\ IsNearest(f, f.hitObject)
                   /\ f.t = f.ts[f.hitObject]
                   /\ \A k \in 1..Len(f.ts) : IsNearest(f, k) => f.hitObject <= k
              ELSE f.hitObject = 0 /\ f.t = Infinity
        /\ f.path = "miss" => (f.hitObject = 0 /\ f.color = backgroundColor)
        /\ f.path = "hit" => f.hitObject # 0

C3_Witness ==
    \E f \in Frames :
        /\ f.pc = "scan" /\ f.i > Len(allObjects)
        /\ Len(f.ts) = 2
        /\ ValidT(f.ts[1]) /\ f.ts[2] = f.ts[1]
        /\ f.hitObject = 1

\* C4: IsPointInShadow is true exactly when an object other than lightObj
\* meets the shadow ray at a t in [epsilon, distance to the light]; the
\* light's own object and a meeting below epsilon never make it true.
C4_ShadowIffOccluder ==
    query # None =>
        (query.inShadow <=>
            \E k \in 1..Len(allObjects) :
                /\ k # query.lightObj
                /\ query.ts[k] # NoT
                /\ query.ts[k] >= epsilon
                /\ query.ts[k] <= query.dist)

C4_Witness ==
    /\ query # None
    /\ Len(allObjects) = 2
    /\ query.lightObj = 1
    /\ ValidT(query.ts[1]) /\ query.ts[1] <= query.dist
    /\ query.ts[2] = 0
    /\ ~query.inShadow

\* C5: every color ComputeRayColor returns, on the hit, miss and depth-guard
\* paths and at every depth, has its three channels in [0, 1].
C5_ReturnsClamped ==
    /\ \A f \in Frames : f.pc = "ret" => InUnit(f.color)
    /\ result # None => InUnit(result)

C5_Witness ==
    \E f \in Frames :
        /\ f.pc = "ret" /\ f.path = "hit" /\ f.depth = 0
        /\ MatOfHit(f).ke[1] > One /\ MatOfHit(f).ke[3] < 0
        /\ f.color[1] = One /\ f.color[3] = 0

StackBounded ==
    /\ Len(stack) <= maxRecursionDepth + 2
    /\ \A k \in 2..Len(stack) : stack[k].depth = stack[k - 1].depth + 1
    /\ \A f \in Frames :
          /\ f.nCalls <= 2
          /\ f.depth > maxRecursionDepth => f.nCalls = 0

\* The most steps an activation entered at the given depth can still take,
\* its own return included
RECURSIVE CallSteps(_)
CallSteps(depth) ==
    IF depth > maxRecursionDepth THEN 2
    ELSE Len(allObjects) + Len(allLights) + 2 * CallSteps(depth + 1) + 7

\* The most steps activation f can still take itself, those of the calls it
\* has yet to make included
FrameSteps(f) ==
    LET c == CallSteps(f.depth + 1)
        fromGI == c + 2
        fromDirect == Len(allLights) + 1 + fromGI
    IN  CASE f.pc = "entry" -> CallSteps(f.depth)
          [] f.pc = "scan" -> (Len(allObjects) + 1 - f.i) + 2 + c + fromDirect
          [] f.pc = "reflect" -> 1 + c + fromDirect
          [] f.pc = "waitRefl" -> fromDirect
          [] f.pc = "direct" -> (Len(allLights) + 1 - f.i) + 1 + fromGI
          [] f.pc = "gi" -> fromGI
          [] f.pc = "waitGI" -> 1
          [] f.pc = "ret" -> 1

RECURSIVE StackSteps(_)
StackSteps(k) == IF k = 0 THEN 0 ELSE FrameSteps(stack[k]) + StackSteps(k - 1)

StepsLeft ==
    IF stack # <<>> THEN StackSteps(Len(stack))
    ELSE IF result = None THEN 1 + CallSteps(0) ELSE 0

Returned == stack = <<>> /\ result # None

\* C6: every call of ComputeRayColor returns: depth grows by exactly 1 per
\* recursive call, no call deeper than maxRecursionDepth recurses, a call
\* makes at most two recursive calls, and the stack is never deeper than
\* maxRecursionDepth + 2 activations; until the call has returned a step is
\* always possible, and every step lowers StepsLeft, a bound on the steps
\* that remain, so no run goes on for ever.
C6_Terminates ==
    /\ [](StackBounded /\ StepsLeft >= 0 /\ (Returned \/ ENABLED Next))
    /\ [][StepsLeft' < StepsLeft]_vars

\* The same, said with "eventually", for a program that keeps taking steps
C6_EventuallyReturns == <>Returned

\* two mirrors facing each other, down to the depth guard
C6_Witness ==
    /\ Len(stack) = maxRecursionDepth + 2
    /\ stack[1].depth = 0 /\ ~stack[1].specularRay
    /\ \A k \in 1..(Len(stack) - 1) :
          /\ stack[k].pc = "waitRefl"
          /\ MatOfHit(stack[k]).reflective = One
    /\ stack[1].hitObject # stack[2].hitObject

MirrorReturn(f) ==
    /\ f.pc = "ret" /\ f.path = "hit"
    /\ MatOfHit(f).reflective = One
    /\ MatOfHit(f).ke = Zero3

\* C9 as stated: for a nearest hit of reflectivity 1 and zero ke, the color
\* returned is the reflected ray's color weighted by ks, direct lighting is
\* skipped, and kd plays no part.
C9_MirrorReturnsReflectionOnly ==
    \A f \in Frames :
        MirrorReturn(f) =>
            /\ f.nShadow = 0 /\ f.nShade = 0
            /\ f.color = ClampVector(Mul3(MatOfHit(f).ks, f.reflColor), 0, One)

\* C9 amended: for a nearest hit of reflectivity 1 and zero ke, direct
\* lighting is skipped (no shadow test, no Blinn-Phong evaluation), and the
\* color returned is the clamped sum of the reflected ray's color weighted by
\* ks and the global-illumination ray's color weighted by kd.
C9_MirrorSkipsDirectLighting ==
    \A f \in Frames :
        MirrorReturn(f) =>
            /\ f.nShadow = 0 /\ f.nShade = 0
            /\ f.color = ClampVector(Add3(Mul3(MatOfHit(f).ks, f.reflColor),
                                          Mul3(MatOfHit(f).kd, f.giColor)), 0, One)

C9_Witness ==
    \E f \in Frames :
        /\ MirrorReturn(f)
        /\ allLights # <<>>
        /\ f.giColor # Zero3
        /\ f.color # ClampVector(Mul3(MatOfHit(f).ks, f.reflColor), 0, One)

\* The objects of the query the shadow ray meets at a t in [epsilon, high]
Occluders(high) ==
    {k \in Scanned(Len(allObjects), query.lightObj) :
        ValidT(query.ts[k]) /\ query.ts[k] <= high}

====
